---- MODULE Spec2Model ----
(***************************************************************************)
(* Model of sqlite-live-select (src/sqlite-live-select.js): the LiveSQLite *)
(* handle (WAL watcher, WAL passes, row cache, notifier) and its           *)
(* LiveSQLiteSelect live queries (execute, diffResults, invalidate).       *)
(*                                                                         *)
(* Abstractions, all stated here:                                          *)
(*  - WAL offsets are counted in frames: a frame is one page image.        *)
(*  - A cell payload is the sequence of the column values of the row, in   *)
(*    the column order of PRAGMA table_info; parseValue reads the value at *)
(*    an offset counted in values.  No value of the model is a JSON text,  *)
(*    so the JSON.parse in parseValue always takes its catch branch.       *)
(*  - A row is a record; JavaScript null is the record NULL, undefined     *)
(*    (as a key of the Index selector) is the number Undefined.            *)
(***************************************************************************)
EXTENDS Integers, Sequences, FiniteSets, Bags, TLC

VARIABLES
  settings,        \* this.settings: minInterval, checkConditionWhenQueued, columnCache
  db,              \* the database file: table -> rowid -> name (or NoRow)
  wal,             \* the -wal file: the sequence of frames appended so far
  watcherPending,  \* a chokidar 'change' event not yet delivered
  now,             \* Date.now()
  paused,          \* this.paused
  lastWalSize,     \* this.lastWalSize
  lastProcessTime, \* this.lastProcessTime
  updateTimeout,   \* this.updateTimeout: NoTimer or the time the timer is due
  passes,          \* the calls of processWALChanges suspended on an await (a bag)
  queries,         \* every LiveSQLiteSelect object created, by id
  liveQueries,     \* this.liveQueries: the ids in the registry
  queuedUpdates,   \* this.queuedUpdates
  tableCache,      \* this.tableCache: table -> rowid -> row
  tableInfo,       \* this.tableInfo: table -> columns
  usedTables,      \* this.usedTables
  lastMutation,    \* history: per cached table, the rows loaded and the last mutation of each rowid
  lastPass,        \* history: what applyChanges did, if the step just taken called it
  emitted,         \* history: the update events emitted by the step just taken
  updates,         \* history: per query, when and why it last emitted an update
  probe,           \* history: the last direct call of a method and its result
  pauseRef,        \* history: a pause, the writes made during it and the updates after resume
  timers,          \* the timers of setTimeout that have not fired: a bag of due times
  ended,           \* end() has been called: the watcher and the connections are closed
  failing,         \* the queries whose statement throws when it is run
  errorListeners,  \* the emitters ("handle" or a query id) with a listener of 'error'
  errors           \* history: the errors thrown or emitted by the step just taken

vars == <<settings, db, wal, watcherPending, now, paused, lastWalSize,
          lastProcessTime, updateTimeout, passes, queries, liveQueries,
          queuedUpdates, tableCache, tableInfo, usedTables, lastMutation,
          lastPass, emitted, updates, probe, pauseRef, timers, ended, failing,
          errorListeners, errors>>

----------------------------------------------------------------------------
(* Bounds of the model *)

MaxWal == 2
MaxTime == 2
MaxPasses == 2
MaxLen == 2

----------------------------------------------------------------------------
(* Values *)

NULL == [null |-> TRUE]
Undefined == 0 - 1
NoRow == "-"
NoTimer == 0 - 1

Tables == {"players", "teams"}

\* the rows the external writer may write: two rows of players, one of teams
Rowids == {1, 2}
Names == {"Alice", "Bob"}
TableRowids(t) == IF t = "players" THEN Rowids ELSE {1}
TableNames(t) == IF t = "players" THEN Names ELSE {"Alice"}
Secret == "s3cret"

\* PRAGMA table_info of every table: id INTEGER PRIMARY KEY, name TEXT, pw TEXT
ColumnInfo ==
  <<[name |-> "id", type |-> "INTEGER"],
    [name |-> "name", type |-> "TEXT"],
    [name |-> "pw", type |-> "TEXT"]>>

\* sqlite_master.rootpage of each table; the tables of the model fit in one page
RootPage == [t \in Tables |-> IF t = "players" THEN 2 ELSE 3]

Range(s) == {s[i] : i \in 1..Len(s)}

RECURSIVE SeqFilter(_, _)
SeqFilter(s, keep) ==
  IF s = <<>> THEN <<>>
  ELSE IF Head(s) \in keep THEN <<Head(s)>> \o SeqFilter(Tail(s), keep)
       ELSE SeqFilter(Tail(s), keep)

\* Map.set and Map.delete on a Map whose iteration order is not used
MapSet(m, k, v) == [x \in (DOMAIN m) \cup {k} |-> IF x = k THEN v ELSE m[x]]
MapDelete(m, k) == [x \in (DOMAIN m) \ {k} |-> m[x]]
EmptyMap == [x \in {} |-> 0]

----------------------------------------------------------------------------
(* LiveSQLiteKeySelector *)

\* the text a value of a column takes in Array.prototype.join
ColText(col, v) == IF col = "id" THEN ToString(v) ELSE v

RECURSIVE Join(_, _)
Join(cols, row) ==
  IF cols = <<>> THEN ""
  ELSE IF Len(cols) = 1 THEN ColText(cols[1], row[cols[1]])
  ELSE ColText(cols[1], row[cols[1]]) \o "|" \o Join(Tail(cols), row)

\* the user function given to Func in the model: row => String(row.id)
KeyFunc(row) == ToString(row.id)

\* the selector applied to (row, index); index is Undefined when the caller
\* passes the row alone
KeySelector(sel, row, index) ==
  CASE sel.kind = "Index"   -> IF index = Undefined THEN "undefined" ELSE ToString(index)
    [] sel.kind = "Columns" -> Join(sel.columns, row)
    [] sel.kind = "Func"    -> KeyFunc(row)

Selectors ==
  {[kind |-> "Index"],
   [kind |-> "Columns", columns |-> <<"id">>],
   [kind |-> "Columns", columns |-> <<"id", "name">>],
   [kind |-> "Func"]}

----------------------------------------------------------------------------
(* LiveSQLiteSelect.diffResults and execute *)

\* the columns of a result row, in the order of the statement
ResultColumns == <<"id", "name">>

JSONStringify(row) ==
  IF row = NULL THEN <<>>
  ELSE [i \in 1..Len(ResultColumns) |-> <<ResultColumns[i], ColText(ResultColumns[i], row[ResultColumns[i]])>>]

\* Array.prototype.map(this.keySelector): the callback receives (row, index)
MapKeys(sel, result) == {KeySelector(sel, result[i], i - 1) : i \in 1..Len(result)}

\* oldResult.find(r => this.keySelector(r) === key)
Find(sel, result, key) ==
  LET hits == {i \in 1..Len(result) : KeySelector(sel, result[i], Undefined) = key}
  IN IF hits = {} THEN NULL
     ELSE result[CHOOSE i \in hits : \A j \in hits : i <= j]

RECURSIVE DiffNew(_, _, _, _)
DiffNew(sel, oldResult, oldKeys, rest) ==
  IF rest = <<>> THEN [added |-> <<>>, changed |-> <<>>]
  ELSE LET row == Head(rest)
           key == KeySelector(sel, row, Undefined)
           d == DiffNew(sel, oldResult, oldKeys, Tail(rest))
       IN IF key \notin oldKeys
            THEN [d EXCEPT !.added = <<row>> \o @]
          ELSE IF JSONStringify(row) # JSONStringify(Find(sel, oldResult, key))
            THEN [d EXCEPT !.changed = <<row>> \o @]
          ELSE d

RECURSIVE DiffOld(_, _, _)
DiffOld(sel, newKeys, rest) ==
  IF rest = <<>> THEN <<>>
  ELSE LET row == Head(rest)
           key == KeySelector(sel, row, Undefined)
       IN IF key \notin newKeys THEN <<row>> \o DiffOld(sel, newKeys, Tail(rest))
          ELSE DiffOld(sel, newKeys, Tail(rest))

\* lastResult is NULL before the first execution, then [rows |-> the result]
diffResults(sel, oldResult, newResult) ==
  LET old == IF oldResult = NULL THEN <<>> ELSE oldResult.rows
      oldKeys == MapKeys(sel, old)
      newKeys == MapKeys(sel, newResult)
      d == DiffNew(sel, old, oldKeys, newResult)
  IN [added |-> d.added, changed |-> d.changed,
      removed |-> DiffOld(sel, newKeys, old)]

NoEvent == [none |-> TRUE]

\* execute(): the statement has returned newResult; the value is the query
\* object after the call and the update event emitted, if any
execute(query, newResult) ==
  LET diff == diffResults(query.keySelector, query.lastResult, newResult)
      emits == Len(diff.added) > 0 \/ Len(diff.changed) > 0 \/ Len(diff.removed) > 0
  IN [query |-> [query EXCEPT !.lastResult = [rows |-> newResult]],
      event |-> IF emits
                  THEN [diff |-> diff, data |-> newResult, old |-> query.lastResult]
                  ELSE NoEvent]

----------------------------------------------------------------------------
(* The database, its queries and the external writer *)

\* the row of table t with rowid r, as the database holds it
DbRow(d, t, r) == [id |-> r, name |-> d[t][r], pw |-> Secret]

\* the rowids of table t, ascending (the order of a table scan and of the
\* cell pointers of a leaf page)
RECURSIVE RowidsFrom(_, _, _)
RowidsFrom(d, t, r) ==
  IF r \notin DOMAIN d[t] THEN <<>>
  ELSE IF d[t][r] # NoRow THEN <<r>> \o RowidsFrom(d, t, r + 1)
       ELSE RowidsFrom(d, t, r + 1)

\* the statements and triggers the model passes to select()
QueryIds == {"all", "one"}

\* the statements whose triggers name a table that cannot be cached
BadQueryIds == {"ghost", "busy"}

QueryDef(id) ==
  CASE id = "all" ->
         [table |-> "players", where |-> "true",
          keySelector |-> [kind |-> "Columns", columns |-> <<"id">>],
          triggers |-> <<[table |-> "players", condition |-> "none"]>>]
    [] id = "one" ->
         [table |-> "players", where |-> "id1",
          keySelector |-> [kind |-> "Func"],
          triggers |-> <<[table |-> "teams", condition |-> "none"],
                         [table |-> "players", condition |-> "id1"]>>]
    [] id = "ghost" ->
         [table |-> "players", where |-> "true",
          keySelector |-> [kind |-> "Columns", columns |-> <<"id">>],
          triggers |-> <<[table |-> "teams", condition |-> "none"],
                         [table |-> "ghost", condition |-> "none"]>>]
    [] id = "busy" ->
         [table |-> "players", where |-> "true",
          keySelector |-> [kind |-> "Columns", columns |-> <<"id">>],
          triggers |-> <<[table |-> "busy", condition |-> "none"],
                         [table |-> "players", condition |-> "none"]>>]

Where(w, row) == IF w = "id1" THEN row.id = 1 ELSE TRUE

\* stmt.all(values): SELECT id, name FROM table WHERE where
StmtAll(id, d) ==
  LET def == QueryDef(id)
      ids == RowidsFrom(d, def.table, 1)
      rows == [i \in 1..Len(ids) |-> [id |-> ids[i], name |-> d[def.table][ids[i]]]]
  IN SeqFilter(rows, {row \in Range(rows) : Where(def.where, row)})

\* row && row.id === 1
HasId1(row) == row # NULL /\ "id" \in DOMAIN row /\ row.id = 1

\* a trigger condition written by the user against the call
\* trigger.condition(newRow, oldRow, rowDeleted)
Condition(c, newRow, oldRow, rowDeleted) ==
  CASE c = "id1"   -> HasId1(newRow) \/ HasId1(oldRow)
    [] OTHER       -> FALSE

\* the image of the leaf page of table t: one cell per row, in rowid order
PageImage(d, t) ==
  LET ids == RowidsFrom(d, t, 1)
  IN [pageNumber |-> RootPage[t], pageType |-> 13,
      cells |-> [i \in 1..Len(ids) |->
                   [rowId |-> ids[i], payload |-> <<ids[i], d[t][ids[i]], Secret>>]]]

----------------------------------------------------------------------------
(* LiveSQLite: the row cache *)

\* a JavaScript Map iterated in insertion order: a sequence of entries
OMapHas(m, k) == \E i \in 1..Len(m) : m[i].key = k
OMapGet(m, k) == m[CHOOSE i \in 1..Len(m) : m[i].key = k].value
OMapSet(m, k, v) ==
  IF OMapHas(m, k)
    THEN [i \in 1..Len(m) |-> IF m[i].key = k THEN [key |-> k, value |-> v] ELSE m[i]]
    ELSE Append(m, [key |-> k, value |-> v])

\* cacheTable: the columns selected by settings.columnCache[tableName]
CachedColumns(cacheSettings, info) ==
  LET columns == {info[i].name : i \in 1..Len(info)}
  IN IF "include" \in DOMAIN cacheSettings THEN cacheSettings.include
     ELSE IF "exclude" \in DOMAIN cacheSettings THEN columns \ cacheSettings.exclude
     ELSE columns

\* cacheTable: SELECT rowid, <columns> FROM table, keyed by row.rowid
cacheTable(cacheSettings, info, d, t) ==
  LET columns == CachedColumns(cacheSettings, info)
      present == {r \in DOMAIN d[t] : d[t][r] # NoRow}
  IN [r \in present |->
        [c \in columns \cup {"rowid"} |->
           IF c = "rowid" THEN r ELSE DbRow(d, t, r)[c]]]

\* parseValue / getValueSize, with offsets counted in values
parseValue(data, offset, type) ==
  IF type \in {"INTEGER", "REAL", "TEXT", "BLOB"} THEN data[offset + 1] ELSE NULL
getValueSize(data, offset, type) ==
  IF type \in {"INTEGER", "REAL", "TEXT", "BLOB"} THEN 1 ELSE 0

RECURSIVE ParseColumns(_, _, _, _)
ParseColumns(columns, data, offset, rowData) ==
  IF columns = <<>> THEN rowData
  ELSE LET column == Head(columns)
       IN ParseColumns(Tail(columns), data,
                       offset + getValueSize(data, offset, column.type),
                       MapSet(rowData, column.name, parseValue(data, offset, column.type)))

\* parseRowData: one entry per column of this.tableInfo.get(tableName)
parseRowData(info, tableName, data) == ParseColumns(info[tableName], data, 0, EmptyMap)

\* getTableInfo: SELECT name FROM sqlite_master WHERE rootpage = ?
getTableInfo(pageNumber) ==
  IF \E t \in Tables : RootPage[t] = pageNumber
    THEN [name |-> CHOOSE t \in Tables : RootPage[t] = pageNumber]
    ELSE NULL

RECURSIVE ProcessCells(_, _, _, _)
ProcessCells(info, name, cells, changes) ==
  IF cells = <<>> THEN changes
  ELSE LET cell == Head(cells)
           withTable == IF OMapHas(changes, name) THEN changes ELSE OMapSet(changes, name, <<>>)
           rowChanges == parseRowData(info, name, cell.payload)
       IN ProcessCells(info, name, Tail(cells),
                       OMapSet(withTable, name, OMapSet(OMapGet(withTable, name), cell.rowId, rowChanges)))

\* processWALFrame: the changes Map after the frame
processWALFrame(info, used, frame, changes) ==
  IF frame.pageType = 13
    THEN LET ti == getTableInfo(frame.pageNumber)
         IN IF ti # NULL /\ ti.name \in used
              THEN ProcessCells(info, ti.name, frame.cells, changes)
              ELSE changes
    ELSE changes

\* parseWAL: the loop over the frames of the buffer
RECURSIVE ParseFrames(_, _, _, _)
ParseFrames(info, used, frames, changes) ==
  IF frames = <<>> THEN changes
  ELSE ParseFrames(info, used, Tail(frames), processWALFrame(info, used, Head(frames), changes))

----------------------------------------------------------------------------
(* LiveSQLite.applyChanges and notifyQueries *)

\* some(...) without the test of trigger.table
RECURSIVE SomeTrigger_AnyTable(_, _, _, _, _, _)
SomeTrigger_AnyTable(triggers, i, tableName, oldRow, newRow, rowDeleted) ==
  IF i > Len(triggers) THEN 0
  ELSE LET trigger == triggers[i]
           hit == IF trigger.condition # "none"
                    THEN Condition(trigger.condition, newRow, oldRow, rowDeleted)
                  ELSE TRUE
       IN IF hit THEN i
          ELSE SomeTrigger_AnyTable(triggers, i + 1, tableName, oldRow, newRow, rowDeleted)

\* query.triggers.some(...): the index of the first trigger that returns
\* true, or 0
RECURSIVE SomeTrigger(_, _, _, _, _, _)
SomeTrigger(triggers, i, tableName, oldRow, newRow, rowDeleted) ==
  IF i > Len(triggers) THEN 0
  ELSE LET trigger == triggers[i]
           hit == IF trigger.table # tableName THEN FALSE
                  ELSE IF trigger.condition # "none"
                         THEN Condition(trigger.condition, newRow, oldRow, rowDeleted)
                  ELSE TRUE
       IN IF hit THEN i
          ELSE SomeTrigger(triggers, i + 1, tableName, oldRow, newRow, rowDeleted)

\* history: the calls of trigger.condition made by some(...) for query q,
\* which stops at the trigger first that returns true
ConditionCalls(q, triggers, first, tableName, oldRow, newRow, rowDeleted) ==
  {[query |-> q, trigger |-> i, args |-> <<newRow, oldRow, rowDeleted>>] :
     i \in {n \in 1..Len(triggers) :
              /\ first = 0 \/ n <= first
              /\ triggers[n].table = tableName
              /\ triggers[n].condition # "none"}}

\* history: the update event e of query q, emitted at time by origin
Stamp(ups, q, e, time, origin) ==
  [query |-> q, diff |-> e.diff, data |-> e.data, old |-> e.old,
   time |-> time, origin |-> origin,
   prevTime |-> ups[q].time, prevOrigin |-> ups[q].origin]

\* this.liveQueries in its iteration order: a Map iterates in insertion
\* order, and query.seq numbers the queries as they are created
RECURSIVE LiveOrder(_, _)
LiveOrder(qs, live) ==
  IF live = {} THEN <<>>
  ELSE LET q == CHOOSE x \in live : \A y \in live : qs[x].seq <= qs[y].seq
       IN <<q>> \o LiveOrder(qs, live \ {q})

\* an error emitted on an emitter: EventEmitter.emit('error', ...) throws
\* the error when the emitter has no listener of 'error'
ErrorEvent(target, code) ==
  [target |-> target, code |-> code, thrown |-> target \notin errorListeners]

\* S is the state a pass works on: tableCache, queries, queuedUpdates, the
\* errors emitted, thrown (an exception is propagating) and the history
\* updates and log; E is the entry of the log for this notification.  One
\* turn of the loop of notifyQueries, for query q: S and E after it.
NotifyQuery(S, E, q, cfg, d, time, tableName, oldRow, newRow, rowDeleted) ==
  LET query == S.queries[q]
      first == SomeTrigger(query.triggers, 1, tableName, oldRow, newRow, rowDeleted)
      E1 == [E EXCEPT !.calls = @ \cup ConditionCalls(q, query.triggers, first, tableName,
                                                     oldRow, newRow, rowDeleted)]
  IN IF first = 0 THEN [S |-> S, E |-> E1]
     ELSE IF ~(cfg.checkConditionWhenQueued \/ q \notin S.queuedUpdates)
       THEN [S |-> S, E |-> [E1 EXCEPT !.needsUpdate = @ \cup {q}]]
     ELSE LET S1 == [S EXCEPT !.queuedUpdates = @ \cup {q}]
              E2 == [E1 EXCEPT !.needsUpdate = @ \cup {q}, !.invalidated = @ \cup {q}]
          IN IF ~query.active THEN [S |-> S1, E |-> E2]
             ELSE IF q \in failing
               THEN LET err == ErrorEvent(q, "QUERY")
                    IN [S |-> [S1 EXCEPT !.errors = Append(@, err), !.thrown = err.thrown],
                        E |-> [E2 EXCEPT !.executed = @ \cup {q}, !.failed = @ \cup {q}]]
             ELSE CHOOSE after \in
                    {IF run.event = NoEvent
                       THEN [S |-> [S1 EXCEPT !.queries[q] = run.query],
                             E |-> [E2 EXCEPT !.executed = @ \cup {q}]]
                       ELSE [S |-> [S1 EXCEPT
                                      !.queries[q] = run.query,
                                      !.emitted = Append(@, Stamp(S.updates, q, run.event,
                                                                  time, "invalidate")),
                                      !.updates[q] = [time |-> time, origin |-> "invalidate"]],
                             E |-> [E2 EXCEPT !.executed = @ \cup {q},
                                              !.emitted = @ \cup {q}]] :
                       run \in {execute(query, StmtAll(q, d))}} : TRUE

\* the loop over this.liveQueries, left when an exception propagates
RECURSIVE NotifyLoop(_, _, _, _, _, _, _, _, _)
NotifyLoop(SE, order, cfg, d, time, tableName, oldRow, newRow, rowDeleted) ==
  IF order = <<>> THEN SE
  ELSE CHOOSE after \in
         {IF turn.S.thrown THEN turn
          ELSE NotifyLoop(turn, Tail(order), cfg, d, time, tableName, oldRow, newRow,
                          rowDeleted) :
            turn \in {NotifyQuery(SE.S, SE.E, Head(order), cfg, d, time, tableName,
                                  oldRow, newRow, rowDeleted)}} : TRUE

\* notifyQueries(tableName, oldRow, newRow, rowDeleted): the state after the
\* call, with the entry of the log appended
notifyQueries(S, live, cfg, d, time, rowId, tableName, oldRow, newRow, rowDeleted) ==
  LET E == [table |-> tableName, rowId |-> rowId, oldRow |-> oldRow,
            newRow |-> newRow, rowDeleted |-> rowDeleted,
            cache |-> S.tableCache, queued |-> S.queuedUpdates,
            calls |-> {}, needsUpdate |-> {}, invalidated |-> {},
            executed |-> {}, failed |-> {}, emitted |-> {}]
      SE == NotifyLoop([S |-> S, E |-> E], LiveOrder(S.queries, live), cfg, d, time,
                       tableName, oldRow, newRow, rowDeleted)
  IN [SE.S EXCEPT !.log = Append(@, SE.E)]

\* applyChanges with a Delete branch that leaves the row in the cache
ApplyRow_KeepsDeleted(S, live, cfg, d, time, tableName, rowId, newRow) ==
  LET cache == S.tableCache[tableName]
      hasOld == rowId \in DOMAIN cache
      oldRow == IF hasOld THEN cache[rowId] ELSE NULL
  IN IF ~hasOld /\ newRow # NULL
       THEN notifyQueries([S EXCEPT !.tableCache[tableName] = MapSet(cache, rowId, newRow)],
                          live, cfg, d, time, rowId, tableName, NULL, newRow, FALSE)
     ELSE IF hasOld /\ newRow = NULL
       THEN notifyQueries(S, live, cfg, d, time, rowId, tableName, oldRow, NULL, TRUE)
     ELSE IF hasOld /\ newRow # NULL
       THEN notifyQueries([S EXCEPT !.tableCache[tableName] = MapSet(cache, rowId, newRow)],
                          live, cfg, d, time, rowId, tableName, oldRow, newRow, FALSE)
     ELSE S

\* applyChanges with an Update branch that notifies as for an insert
ApplyRow_UpdateAsInsert(S, live, cfg, d, time, tableName, rowId, newRow) ==
  LET cache == S.tableCache[tableName]
      hasOld == rowId \in DOMAIN cache
      oldRow == IF hasOld THEN cache[rowId] ELSE NULL
  IN IF newRow # NULL
       THEN notifyQueries([S EXCEPT !.tableCache[tableName] = MapSet(cache, rowId, newRow)],
                          live, cfg, d, time, rowId, tableName, NULL, newRow, FALSE)
     ELSE IF hasOld /\ newRow = NULL
       THEN notifyQueries([S EXCEPT !.tableCache[tableName] = MapDelete(cache, rowId)],
                          live, cfg, d, time, rowId, tableName, oldRow, NULL, TRUE)
     ELSE S

\* the body of the inner loop of applyChanges for one (rowId, newRow)
ApplyRow(S, live, cfg, d, time, tableName, rowId, newRow) ==
  LET cache == S.tableCache[tableName]
      hasOld == rowId \in DOMAIN cache
      oldRow == IF hasOld THEN cache[rowId] ELSE NULL
  IN IF ~hasOld /\ newRow # NULL
       THEN notifyQueries([S EXCEPT !.tableCache[tableName] = MapSet(cache, rowId, newRow)],
                          live, cfg, d, time, rowId, tableName, NULL, newRow, FALSE)
     ELSE IF hasOld /\ newRow = NULL
       THEN notifyQueries([S EXCEPT !.tableCache[tableName] = MapDelete(cache, rowId)],
                          live, cfg, d, time, rowId, tableName, oldRow, NULL, TRUE)
     ELSE IF hasOld /\ newRow # NULL
       THEN notifyQueries([S EXCEPT !.tableCache[tableName] = MapSet(cache, rowId, newRow)],
                          live, cfg, d, time, rowId, tableName, oldRow, newRow, FALSE)
     ELSE S

\* the inner loop of applyChanges, left when an exception propagates
RECURSIVE ApplyRows(_, _, _, _, _, _, _)
ApplyRows(S, live, cfg, d, time, tableName, rowChanges) ==
  IF rowChanges = <<>> THEN S
  ELSE CHOOSE after \in
         {IF row.thrown THEN row
          ELSE ApplyRows(row, live, cfg, d, time, tableName, Tail(rowChanges)) :
            row \in {ApplyRow(S, live, cfg, d, time, tableName,
                              Head(rowChanges).key, Head(rowChanges).value)}} : TRUE

\* applyChanges(changes): the state after the call
RECURSIVE applyChanges(_, _, _, _, _, _)
applyChanges(S, live, cfg, d, time, changes) ==
  IF changes = <<>> THEN S
  ELSE LET tableName == Head(changes).key
           rowChanges == Head(changes).value
       IN IF tableName \notin DOMAIN S.tableCache
            THEN applyChanges(S, live, cfg, d, time, Tail(changes))
            ELSE CHOOSE after \in
                   {IF rows.thrown THEN rows
                    ELSE applyChanges(rows, live, cfg, d, time, Tail(changes)) :
                      rows \in {ApplyRows(S, live, cfg, d, time, tableName,
                                          rowChanges)}} : TRUE

\* the state applyChanges is entered with
PassState(cache, qs, queued) ==
  [tableCache |-> cache, queries |-> qs, queuedUpdates |-> queued,
   updates |-> updates, emitted |-> <<>>, log |-> <<>>, errors |-> <<>>,
   thrown |-> FALSE]

----------------------------------------------------------------------------
(* The initial state: after new LiveSQLite(settings) *)

\* the defaults of the constructor
DefaultSettings ==
  [minInterval |-> 0, checkConditionWhenQueued |-> FALSE, columnCache |-> EmptyMap]

\* the settings the handle is constructed with: the defaults, and the
\* defaults with options set
Settings ==
  {DefaultSettings,
   [DefaultSettings EXCEPT !.checkConditionWhenQueued = TRUE,
                           !.columnCache = [t \in {"players"} |-> [exclude |-> {"pw"}]]],
   [DefaultSettings EXCEPT !.columnCache = [t \in {"players"} |-> [include |-> {"id", "name"}]]],
   [DefaultSettings EXCEPT !.minInterval = 1, !.checkConditionWhenQueued = TRUE]}

NoPass == [origin |-> "none"]
NoUpdate == [time |-> 0 - 1, origin |-> "none"]
NoProbe == [call |-> "none"]

\* pauseRef when pauses are not recorded, and when no pause is being recorded
RefOff == [phase |-> "off"]
NoRef == [phase |-> "none"]
Track(ref) == IF pauseRef = RefOff THEN RefOff ELSE ref

\* the (query, diff, data) of a sequence of update events
Diffs(events) ==
  [i \in 1..Len(events) |->
     [query |-> events[i].query, diff |-> events[i].diff, data |-> events[i].data]]

\* Date.now() is far from the initial lastProcessTime 0: the clock of the
\* model starts minInterval after it
Init ==
  /\ settings \in Settings
  /\ db = [t \in Tables |-> [r \in TableRowids(t) |-> NoRow]]
  /\ wal = <<>>
  /\ watcherPending = FALSE
  /\ now = settings.minInterval
  /\ paused = FALSE
  /\ lastWalSize = 0
  /\ lastProcessTime = 0
  /\ updateTimeout = NoTimer
  /\ passes = EmptyBag
  /\ queries = EmptyMap
  /\ liveQueries = {}
  /\ queuedUpdates = {}
  /\ tableCache = EmptyMap
  /\ tableInfo = EmptyMap
  /\ usedTables = {}
  /\ lastMutation = EmptyMap
  /\ lastPass = NoPass
  /\ emitted = <<>>
  /\ updates = [q \in QueryIds |-> NoUpdate]
  /\ probe = NoProbe
  /\ pauseRef = RefOff
  /\ timers = EmptyBag
  /\ ended = FALSE
  /\ failing = {}
  /\ errorListeners = {}
  /\ errors = <<>>

----------------------------------------------------------------------------
(* select *)

\* PRAGMA table_info(t): no row for a table the database does not have
PragmaTableInfo(t) == IF t \in Tables THEN ColumnInfo ELSE <<>>

\* the tables a trigger can name that make cacheTable throw: "ghost" is no
\* table of the database, so that the SELECT of cacheTable fails; on "busy"
\* the PRAGMA of cacheTableInfo fails.  Both errors leave cacheTable as
\* CACHE_TABLE_ERROR: cacheTableInfo is called inside the try of cacheTable.
TableFault(t) ==
  CASE t = "busy" -> "info"
    [] t \notin Tables -> "load"
    [] OTHER -> "none"

\* ensureTableCached for the triggers of a query, in order: the caches
\* after, and the error thrown, if any
RECURSIVE EnsureCached(_, _, _, _)
EnsureCached(C, cfg, d, triggers) ==
  IF triggers = <<>> \/ C.thrown # "none" THEN C
  ELSE LET t == Head(triggers).table
           info == IF t \in DOMAIN C.tableInfo THEN C.tableInfo
                   ELSE MapSet(C.tableInfo, t, PragmaTableInfo(t))
           cacheSettings == IF t \in DOMAIN cfg.columnCache THEN cfg.columnCache[t] ELSE EmptyMap
       IN IF t \in DOMAIN C.tableCache
            THEN EnsureCached([C EXCEPT !.usedTables = @ \cup {t}], cfg, d, Tail(triggers))
          ELSE IF t \notin DOMAIN C.tableInfo /\ TableFault(t) = "info"
            THEN [C EXCEPT !.thrown = "CACHE_TABLE_ERROR"]
          ELSE IF TableFault(t) # "none"
            THEN [C EXCEPT !.tableInfo = info, !.thrown = "CACHE_TABLE_ERROR"]
          ELSE EnsureCached([C EXCEPT !.tableInfo = info,
                                      !.tableCache = MapSet(C.tableCache, t,
                                                       cacheTable(cacheSettings, info[t], d, t)),
                                      !.usedTables = @ \cup {t}],
                            cfg, d, Tail(triggers))

\* select that registers the query before its trigger tables are cached
Select_RegistersBeforeCaching(id) ==
  /\ ~ended
  /\ id \notin DOMAIN queries
  /\ \E def \in {QueryDef(id)} :
     \E C \in {EnsureCached([tableInfo |-> tableInfo, tableCache |-> tableCache,
                             usedTables |-> usedTables, thrown |-> "none"],
                            settings, db, def.triggers)},
        created \in {[id |-> id, keySelector |-> def.keySelector,
                      triggers |-> def.triggers, lastResult |-> NULL, active |-> TRUE,
                      seq |-> Cardinality(DOMAIN queries) + 1]} :
        /\ tableInfo' = C.tableInfo
        /\ tableCache' = C.tableCache
        /\ usedTables' = C.usedTables
        /\ lastMutation' = [t \in DOMAIN C.tableCache |->
                              IF t \in DOMAIN tableCache THEN lastMutation[t]
                              ELSE [loaded |-> C.tableCache[t], last |-> EmptyMap]]
        /\ lastPass' = NoPass
        /\ pauseRef' = Track(NoRef)
        /\ IF C.thrown # "none" THEN
             /\ errors' = <<[target |-> "caller", code |-> C.thrown, thrown |-> TRUE]>>
             /\ emitted' = <<>>
             /\ queries' = MapSet(queries, id, created)
             /\ liveQueries' = liveQueries \cup {id}
             /\ UNCHANGED updates
           ELSE IF id \in failing THEN
             /\ errors' = <<[target |-> id, code |-> "QUERY", thrown |-> TRUE]>>
             /\ emitted' = <<>>
             /\ UNCHANGED <<queries, liveQueries, updates>>
           ELSE
             \E run \in {execute(created, StmtAll(id, db))} :
               /\ queries' = MapSet(queries, id, run.query)
               /\ emitted' = IF run.event = NoEvent THEN <<>>
                              ELSE <<Stamp(updates, id, run.event, now, "select")>>
               /\ updates' = IF run.event = NoEvent THEN updates
                              ELSE [updates EXCEPT ![id] = [time |-> now, origin |-> "select"]]
               /\ liveQueries' = liveQueries \cup {id}
               /\ errors' = <<>>
  /\ UNCHANGED <<settings, db, wal, watcherPending, now, paused, lastWalSize,
                 lastProcessTime, updateTimeout, passes, queuedUpdates, probe,
                 timers, ended, failing, errorListeners>>

\* select(query, values, keySelector, triggers), each statement of the
\* model at most once.  An error of ensureTableCached leaves select before
\* the query is created; the constructor of the query runs execute(), whose
\* error is emitted on a query nobody listens to yet, and so thrown.
Select(id) ==
  /\ ~ended
  /\ id \notin DOMAIN queries
  /\ \E def \in {QueryDef(id)} :
     \E C \in {EnsureCached([tableInfo |-> tableInfo, tableCache |-> tableCache,
                             usedTables |-> usedTables, thrown |-> "none"],
                            settings, db, def.triggers)},
        created \in {[id |-> id, keySelector |-> def.keySelector,
                      triggers |-> def.triggers, lastResult |-> NULL, active |-> TRUE,
                      seq |-> Cardinality(DOMAIN queries) + 1]} :
        /\ tableInfo' = C.tableInfo
        /\ tableCache' = C.tableCache
        /\ usedTables' = C.usedTables
        /\ lastMutation' = [t \in DOMAIN C.tableCache |->
                              IF t \in DOMAIN tableCache THEN lastMutation[t]
                              ELSE [loaded |-> C.tableCache[t], last |-> EmptyMap]]
        /\ lastPass' = NoPass
        /\ pauseRef' = Track(NoRef)
        /\ IF C.thrown # "none" THEN
             /\ errors' = <<[target |-> "caller", code |-> C.thrown, thrown |-> TRUE]>>
             /\ emitted' = <<>>
             /\ UNCHANGED <<queries, liveQueries, updates>>
           ELSE IF id \in failing THEN
             /\ errors' = <<[target |-> id, code |-> "QUERY", thrown |-> TRUE]>>
             /\ emitted' = <<>>
             /\ UNCHANGED <<queries, liveQueries, updates>>
           ELSE
             \E run \in {execute(created, StmtAll(id, db))} :
               /\ queries' = MapSet(queries, id, run.query)
               /\ emitted' = IF run.event = NoEvent THEN <<>>
                              ELSE <<Stamp(updates, id, run.event, now, "select")>>
               /\ updates' = IF run.event = NoEvent THEN updates
                              ELSE [updates EXCEPT ![id] = [time |-> now, origin |-> "select"]]
               /\ liveQueries' = liveQueries \cup {id}
               /\ errors' = <<>>
  /\ UNCHANGED <<settings, db, wal, watcherPending, now, paused, lastWalSize,
                 lastProcessTime, updateTimeout, passes, queuedUpdates, probe,
                 timers, ended, failing, errorListeners>>

----------------------------------------------------------------------------
(* The external writer and the watcher *)

\* the statements of the external writer on the row r of table t, by the
\* name the row holds afterwards: INSERT the first name, UPDATE to another
\* name, DELETE
Writes(d, t, r) ==
  IF d[t][r] = NoRow THEN {"Alice"}
  ELSE (TableNames(t) \cup {NoRow}) \ {d[t][r]}

\* history: the handle that was not paused reads the frames of a write in
\* a pass of its own, from the state ref.never; its updates are added to
\* ref.each
NeverPaused(ref, d, frames) ==
  CHOOSE after \in
    {[ref EXCEPT !.never = [tableCache |-> S.tableCache, queries |-> S.queries,
                            queuedUpdates |-> S.queuedUpdates],
                 !.each = @ \o Diffs(S.emitted),
                 !.writes = @ + 1] :
       S \in {applyChanges(PassState(ref.never.tableCache, ref.never.queries,
                                     ref.never.queuedUpdates),
                           liveQueries, settings, d, now,
                           ParseFrames(tableInfo, usedTables, frames, <<>>))}} : TRUE

\* another process commits an insert, update or delete of one row: the
\* leaf page of the table is appended to the WAL, and the watcher, unless
\* it is closed, sees the file change
ExternalWrite(t, r, v) ==
  /\ Len(wal) < MaxWal
  /\ v \in Writes(db, t, r)
  /\ db' = [db EXCEPT ![t][r] = v]
  /\ wal' = Append(wal, PageImage(db', t))
  /\ watcherPending' = ~ended
  /\ UNCHANGED <<settings, now, paused, lastWalSize, lastProcessTime,
                 updateTimeout, passes, queries, liveQueries, queuedUpdates,
                 tableCache, tableInfo, usedTables, lastMutation, updates, probe,
                 timers, ended, failing, errorListeners>>
  /\ lastPass' = NoPass
  /\ emitted' = <<>>
  /\ errors' = <<>>
  /\ pauseRef' = Track(IF pauseRef.phase = "paused"
                         THEN NeverPaused(pauseRef, db', <<PageImage(db', t)>>)
                         ELSE NoRef)

\* processWALChanges without the test of this.paused
processWALChanges_IgnoresPause(timeout, pending) ==
  IF now - lastProcessTime < settings.minInterval THEN
    /\ updateTimeout' = IF timeout = NoTimer
                          THEN now + (settings.minInterval - (now - lastProcessTime))
                          ELSE timeout
    /\ timers' = IF timeout = NoTimer
                   THEN pending (+) SetToBag({now + (settings.minInterval
                                                       - (now - lastProcessTime))})
                   ELSE pending
    /\ UNCHANGED <<lastProcessTime, passes>>
  ELSE
    /\ BagCardinality(passes) < MaxPasses
    /\ passes' = passes (+) SetToBag({[pc |-> "stat"]})
    /\ lastProcessTime' = now
    /\ updateTimeout' = timeout
    /\ timers' = pending

\* processWALChanges without the test of this.updateTimeout
processWALChanges_AlwaysSchedules(timeout, pending) ==
  IF paused' THEN
    /\ updateTimeout' = timeout
    /\ timers' = pending
    /\ UNCHANGED <<lastProcessTime, passes>>
  ELSE IF now - lastProcessTime < settings.minInterval THEN
    /\ updateTimeout' = now + (settings.minInterval - (now - lastProcessTime))
    /\ timers' = pending (+) SetToBag({now + (settings.minInterval
                                               - (now - lastProcessTime))})
    /\ UNCHANGED <<lastProcessTime, passes>>
  ELSE
    /\ BagCardinality(passes) < MaxPasses
    /\ passes' = passes (+) SetToBag({[pc |-> "stat"]})
    /\ lastProcessTime' = now
    /\ updateTimeout' = timeout
    /\ timers' = pending

\* processWALChanges up to its first await; timeout is this.updateTimeout
\* and pending the timers that have not fired when it is entered.  The
\* handle of the timer is modelled by the time the timer is due.
processWALChanges(timeout, pending) ==
  IF paused' THEN
    /\ updateTimeout' = timeout
    /\ timers' = pending
    /\ UNCHANGED <<lastProcessTime, passes>>
  ELSE IF now - lastProcessTime < settings.minInterval THEN
    /\ updateTimeout' = IF timeout = NoTimer
                          THEN now + (settings.minInterval - (now - lastProcessTime))
                          ELSE timeout
    /\ timers' = IF timeout = NoTimer
                   THEN pending (+) SetToBag({now + (settings.minInterval
                                                       - (now - lastProcessTime))})
                   ELSE pending
    /\ UNCHANGED <<lastProcessTime, passes>>
  ELSE
    /\ BagCardinality(passes) < MaxPasses
    /\ passes' = passes (+) SetToBag({[pc |-> "stat"]})
    /\ lastProcessTime' = now
    /\ updateTimeout' = timeout
    /\ timers' = pending

\* this.watcher.on('change', ...)
WatcherChange ==
  /\ watcherPending
  /\ watcherPending' = FALSE
  /\ paused' = paused
  /\ processWALChanges(updateTimeout, timers)
  /\ UNCHANGED <<settings, db, wal, now, lastWalSize, queries, liveQueries,
                 queuedUpdates, tableCache, tableInfo, usedTables, lastMutation,
                 updates, probe, ended, failing, errorListeners>>
  /\ lastPass' = NoPass
  /\ emitted' = <<>>
  /\ errors' = <<>>
  /\ UNCHANGED pauseRef

\* the callback of setTimeout in processWALChanges: a timer that is due
\* fires, sets this.updateTimeout = null and calls processWALChanges
TimerFire ==
  \E due \in BagToSet(timers) :
    /\ now >= due
    /\ paused' = paused
    /\ processWALChanges(NoTimer, timers (-) SetToBag({due}))
    /\ UNCHANGED <<settings, db, wal, watcherPending, now, lastWalSize, queries,
                   liveQueries, queuedUpdates, tableCache, tableInfo, usedTables,
                   lastMutation, updates, probe, ended, failing, errorListeners>>
    /\ lastPass' = NoPass
    /\ emitted' = <<>>
    /\ errors' = <<>>
    /\ UNCHANGED pauseRef

pause ==
  /\ ~paused
  /\ paused' = TRUE
  /\ UNCHANGED <<settings, db, wal, watcherPending, now, lastWalSize,
                 lastProcessTime, updateTimeout, passes, queries, liveQueries,
                 queuedUpdates, tableCache, tableInfo, usedTables, lastMutation,
                 updates, probe, timers, ended, failing, errorListeners>>
  /\ lastPass' = NoPass
  /\ emitted' = <<>>
  /\ errors' = <<>>
  /\ pauseRef' = Track(IF passes = EmptyBag /\ lastWalSize = Len(wal)
                         THEN [phase |-> "paused", offset |-> lastWalSize,
                               state |-> [tableCache |-> tableCache, queries |-> queries,
                                          queuedUpdates |-> queuedUpdates],
                               never |-> [tableCache |-> tableCache, queries |-> queries,
                                          queuedUpdates |-> queuedUpdates],
                               each |-> <<>>, writes |-> 0, size |-> 0, at |-> 0,
                               got |-> <<>>, done |-> FALSE]
                         ELSE NoRef)

resume ==
  /\ paused
  /\ paused' = FALSE
  /\ processWALChanges(updateTimeout, timers)
  /\ UNCHANGED <<settings, db, wal, watcherPending, now, lastWalSize, queries,
                 liveQueries, queuedUpdates, tableCache, tableInfo, usedTables,
                 lastMutation, updates, probe, ended, failing, errorListeners>>
  /\ lastPass' = NoPass
  /\ emitted' = <<>>
  /\ errors' = <<>>
  /\ pauseRef' = Track(IF pauseRef.phase = "paused"
                         THEN [pauseRef EXCEPT !.phase = "resumed", !.size = Len(wal),
                                               !.at = now]
                         ELSE NoRef)

\* time passes
Tick ==
  /\ now < settings.minInterval * MaxTime
  /\ now' = now + 1
  /\ UNCHANGED <<settings, db, wal, watcherPending, paused, lastWalSize,
                 lastProcessTime, updateTimeout, passes, queries, liveQueries,
                 queuedUpdates, tableCache, tableInfo, usedTables, lastMutation,
                 updates, probe, timers, ended, failing, errorListeners>>
  /\ lastPass' = NoPass
  /\ emitted' = <<>>
  /\ errors' = <<>>
  /\ UNCHANGED pauseRef

----------------------------------------------------------------------------
(* A pass: processWALChanges after its awaits *)

\* history: the mutations (table, rowId, row) decoded from frames, in frame
\* order and, within a frame, in cell-pointer order
RECURSIVE MutationStream(_, _, _)
MutationStream(info, used, frames) ==
  IF frames = <<>> THEN <<>>
  ELSE LET frame == Head(frames)
           ti == getTableInfo(frame.pageNumber)
           cells == IF frame.pageType = 13 /\ ti # NULL /\ ti.name \in used
                      THEN [i \in 1..Len(frame.cells) |->
                              [table |-> ti.name, rowId |-> frame.cells[i].rowId,
                               row |-> parseRowData(info, ti.name, frame.cells[i].payload)]]
                      ELSE <<>>
       IN cells \o MutationStream(info, used, Tail(frames))

\* history: lastMutation after the mutations of stream, a row or NULL (a
\* tombstone) each, on cached tables
RECURSIVE Observe(_, _)
Observe(seen, stream) ==
  IF stream = <<>> THEN seen
  ELSE LET m == Head(stream)
       IN IF m.table \notin DOMAIN seen THEN Observe(seen, Tail(stream))
          ELSE Observe([seen EXCEPT ![m.table].last = MapSet(@, m.rowId, m.row)],
                       Tail(stream))

\* await fs.stat returns: parseWAL is entered with the range, or there is
\* nothing to read
PassStat(p) ==
  /\ p.pc = "stat"
  /\ BagIn(p, passes)
  /\ LET currentSize == Len(wal)
     IN IF currentSize > lastWalSize
          THEN /\ passes' = (passes (-) SetToBag({p})) (+)
                            SetToBag({[pc |-> "read", start |-> lastWalSize,
                                       end |-> currentSize]})
               /\ UNCHANGED lastWalSize
          ELSE /\ passes' = passes (-) SetToBag({p})
               /\ lastWalSize' = currentSize
  /\ UNCHANGED <<settings, db, wal, watcherPending, now, paused, lastProcessTime,
                 updateTimeout, queries, liveQueries, queuedUpdates, tableCache,
                 tableInfo, usedTables, lastMutation, updates, probe, timers, ended,
                 failing, errorListeners>>
  /\ lastPass' = NoPass
  /\ emitted' = <<>>
  /\ errors' = <<>>
  /\ UNCHANGED pauseRef

\* the awaits of parseWAL (open, read, close) return: the frames of the
\* range are decoded and applied, then lastWalSize = currentSize.  An
\* exception (getTableInfo on a closed connection, or the error of a query
\* nobody listens to) leaves parseWAL as WAL_PARSE_ERROR; processWALChanges
\* catches it, emits WAL_PROCESS_ERROR on the handle and leaves lastWalSize.
PassRead(p) ==
  /\ p.pc = "read"
  /\ BagIn(p, passes)
  /\ passes' = passes (-) SetToBag({p})
  /\ IF ended /\ \E i \in (p.start + 1)..p.end : wal[i].pageType = 13 THEN
       /\ errors' = <<ErrorEvent("handle", "WAL_PROCESS_ERROR")>>
       /\ emitted' = <<>>
       /\ lastPass' = NoPass
       /\ UNCHANGED <<tableCache, queries, queuedUpdates, updates, lastMutation,
                      lastWalSize, pauseRef>>
     ELSE
       \E start \in {p.start}, end \in {p.end} :
       \E changes \in {ParseFrames(tableInfo, usedTables, SubSeq(wal, start + 1, end), <<>>)} :
       \E S \in {applyChanges(PassState(tableCache, queries, queuedUpdates),
                              liveQueries, settings, db, now, changes)} :
          /\ tableCache' = S.tableCache
          /\ queries' = S.queries
          /\ queuedUpdates' = S.queuedUpdates
          /\ updates' = S.updates
          /\ emitted' = S.emitted
          /\ errors' = IF S.thrown
                         THEN Append(S.errors, ErrorEvent("handle", "WAL_PROCESS_ERROR"))
                         ELSE S.errors
          /\ lastMutation' = Observe(lastMutation,
                                      MutationStream(tableInfo, usedTables,
                                                     SubSeq(wal, start + 1, end)))
          /\ lastPass' = [origin |-> "wal", start |-> start, end |-> end,
                          decoded |-> Len(MutationStream(tableInfo, usedTables,
                                                         SubSeq(wal, start + 1, end))),
                          before |-> tableCache, queued |-> queuedUpdates,
                          queries |-> queries, live |-> liveQueries,
                          changes |-> changes, log |-> S.log, thrown |-> S.thrown,
                          offset |-> lastWalSize]
          /\ lastWalSize' = IF S.thrown THEN lastWalSize ELSE end
          /\ pauseRef' = IF pauseRef.phase = "resumed"
                           THEN [pauseRef EXCEPT !.got = @ \o Diffs(S.emitted),
                                                 !.done = TRUE]
                           ELSE pauseRef
  /\ UNCHANGED <<settings, db, wal, watcherPending, now, paused, lastProcessTime,
                 updateTimeout, liveQueries, tableInfo, usedTables, probe, timers,
                 ended, failing, errorListeners>>

Next ==
  \/ \E id \in QueryIds : Select(id)
  \/ \E t \in Tables : \E r \in TableRowids(t), v \in TableNames(t) \cup {NoRow} :
       ExternalWrite(t, r, v)
  \/ WatcherChange
  \/ TimerFire
  \/ pause
  \/ resume
  \/ Tick
  \/ \E p \in BagToSet(passes) : PassStat(p)
  \/ \E p \in BagToSet(passes) : PassRead(p)

Spec == Init /\ [][Next]_vars

----------------------------------------------------------------------------
(* execute() called on a query object by itself: the inputs are drawn from *)
(* the results of at most MaxLen rows                                      *)

ResultRows == [id : Rowids, name : Names]
Results == UNION {[1..n -> ResultRows] : n \in 0..MaxLen}

ExecuteCall(sel, last, newResult) ==
  /\ probe = NoProbe
  /\ probe' = [call |-> "execute", keySelector |-> sel, lastResult |-> last,
               newResult |-> newResult,
               result |-> execute([id |-> "probe", keySelector |-> sel, triggers |-> <<>>,
                                   lastResult |-> last, active |-> TRUE, seq |-> 1],
                                  newResult)]
  /\ UNCHANGED <<settings, db, wal, watcherPending, now, paused, lastWalSize,
                 lastProcessTime, updateTimeout, passes, queries, liveQueries,
                 queuedUpdates, tableCache, tableInfo, usedTables, lastMutation,
                 lastPass, emitted, updates, timers, ended, failing, errorListeners,
                 errors>>
  /\ UNCHANGED pauseRef

NextDiff ==
  \E sel \in Selectors, last \in {NULL} \cup {[rows |-> R] : R \in Results},
     newResult \in Results :
    ExecuteCall(sel, last, newResult)

InitDiff == Init /\ settings = DefaultSettings

SpecDiff == InitDiff /\ [][NextDiff]_vars

\* the key of the row at position i of a result: the selector applied to
\* the row and its position
KeyAt(sel, result, i) == KeySelector(sel, result[i], i - 1)
KeysOf(sel, result) == {KeyAt(sel, result, i) : i \in 1..Len(result)}
UniqueKeys(sel, result) ==
  \A i, j \in 1..Len(result) : i # j => KeyAt(sel, result, i) # KeyAt(sel, result, j)
RowWithKey(sel, result, key) ==
  result[CHOOSE i \in 1..Len(result) : KeyAt(sel, result, i) = key]

\* the rows of result at the positions in keep, from position i on, in order
RECURSIVE RowsAt(_, _, _)
RowsAt(result, i, keep) ==
  IF i > Len(result) THEN <<>>
  ELSE (IF i \in keep THEN <<result[i]>> ELSE <<>>) \o RowsAt(result, i + 1, keep)

SpecifiedDiff(sel, old, new) ==
  [added   |-> RowsAt(new, 1, {i \in 1..Len(new) : KeyAt(sel, new, i) \notin KeysOf(sel, old)}),
   changed |-> RowsAt(new, 1, {i \in 1..Len(new) :
                 /\ KeyAt(sel, new, i) \in KeysOf(sel, old)
                 /\ new[i] # RowWithKey(sel, old, KeyAt(sel, new, i))}),
   removed |-> RowsAt(old, 1, {i \in 1..Len(old) : KeyAt(sel, old, i) \notin KeysOf(sel, new)})]

IsEmptyDiff(diff) == diff.added = <<>> /\ diff.changed = <<>> /\ diff.removed = <<>>

ProbeOld == IF probe.lastResult = NULL THEN <<>> ELSE probe.lastResult.rows

\* C3: every update(diff, new) a query emits has, against its previous
\* result old, added = the rows of new whose key is no key of old, changed =
\* the rows of new whose key is a key of old and whose values differ, removed
\* = the rows of old whose key is no key of new, each in the order of its
\* result, and at least one of the three is non-empty (keys unique within
\* each result).
C3_EmittedDiffIsTheKeyedDiff ==
  (/\ probe.call = "execute"
   /\ probe.result.event # NoEvent
   /\ UniqueKeys(probe.keySelector, ProbeOld)
   /\ UniqueKeys(probe.keySelector, probe.newResult))
  => /\ probe.result.event.diff = SpecifiedDiff(probe.keySelector, ProbeOld, probe.newResult)
     /\ ~IsEmptyDiff(probe.result.event.diff)

\* C4: for a result R with unique keys and each selector, diffResults(R, R)
\* has empty added, changed and removed, and re-executing emits no update.
C4_DiffOfEqualResultsIsEmpty ==
  (/\ probe.call = "execute"
   /\ probe.lastResult = [rows |-> probe.newResult]
   /\ UniqueKeys(probe.keySelector, probe.newResult))
  => /\ IsEmptyDiff(diffResults(probe.keySelector, probe.lastResult, probe.newResult))
     /\ probe.result.event = NoEvent

----------------------------------------------------------------------------
(* The tail of parseWAL on any decoded mutations: the changes Map is       *)
(* filled from a stream of at most MaxLen mutations, rows and tombstones   *)
(* (null), and handed to applyChanges                                      *)

\* the rows parseRowData can produce for rowid r of table t, and null
MutationRows(t, r) ==
  {[id |-> r, name |-> n, pw |-> Secret] : n \in TableNames(t)} \cup {NULL}

Mutations ==
  UNION {UNION {{[table |-> t, rowId |-> r, row |-> v] : v \in MutationRows(t, r)} :
                  r \in TableRowids(t)} : t \in Tables}

\* the changes Map filled, as processWALFrame fills it, from a sequence of
\* mutations
RECURSIVE ToChanges(_, _)
ToChanges(stream, changes) ==
  IF stream = <<>> THEN changes
  ELSE LET m == Head(stream)
           withTable == IF OMapHas(changes, m.table) THEN changes
                        ELSE OMapSet(changes, m.table, <<>>)
       IN ToChanges(Tail(stream),
                    OMapSet(withTable, m.table,
                            OMapSet(OMapGet(withTable, m.table), m.rowId, m.row)))

MutationStreams == UNION {[1..n -> Mutations] : n \in 1..MaxLen}

\* lastPass holds one call: a call follows a step that is not a call, on a
\* handle that is not paused and has no pass in flight
ApplyChangesCall(stream) ==
  /\ liveQueries # {}
  /\ lastPass = NoPass
  /\ ~paused
  /\ passes = EmptyBag
  /\ \E changes \in {ToChanges(stream, <<>>)} :
     \E S \in {applyChanges(PassState(tableCache, queries, queuedUpdates),
                            liveQueries, settings, db, now, changes)} :
        /\ tableCache' = S.tableCache
        /\ queries' = S.queries
        /\ queuedUpdates' = S.queuedUpdates
        /\ updates' = S.updates
        /\ emitted' = S.emitted
        /\ errors' = S.errors
        /\ lastMutation' = Observe(lastMutation, stream)
        /\ lastPass' = [origin |-> "call", start |-> 0, end |-> 0,
                        decoded |-> Len(stream),
                        before |-> tableCache, queued |-> queuedUpdates,
                        queries |-> queries, live |-> liveQueries,
                        changes |-> changes, log |-> S.log, thrown |-> S.thrown,
                        offset |-> lastWalSize]
  /\ UNCHANGED <<settings, db, wal, watcherPending, now, paused, lastWalSize,
                 lastProcessTime, updateTimeout, passes, liveQueries, tableInfo,
                 usedTables, probe, timers, ended, failing, errorListeners>>
  /\ UNCHANGED pauseRef

\* a database that holds rows when the handle is constructed
SeededDb ==
  [t \in Tables |-> [r \in TableRowids(t) |-> IF r = 1 THEN "Alice" ELSE NoRow]]

InitApplicator ==
  /\ settings \in {c \in Settings : c.minInterval = 0 /\ c.columnCache = EmptyMap}
                  \cup {[DefaultSettings EXCEPT !.checkConditionWhenQueued = TRUE]}
  /\ db = SeededDb
  /\ wal = <<>>
  /\ watcherPending = FALSE
  /\ now = settings.minInterval
  /\ paused = FALSE
  /\ lastWalSize = 0
  /\ lastProcessTime = 0
  /\ updateTimeout = NoTimer
  /\ passes = EmptyBag
  /\ queries = EmptyMap
  /\ liveQueries = {}
  /\ queuedUpdates = {}
  /\ tableCache = EmptyMap
  /\ tableInfo = EmptyMap
  /\ usedTables = {}
  /\ lastMutation = EmptyMap
  /\ lastPass = NoPass
  /\ emitted = <<>>
  /\ updates = [q \in QueryIds |-> NoUpdate]
  /\ probe = NoProbe
  /\ pauseRef = RefOff
  /\ timers = EmptyBag
  /\ ended = FALSE
  /\ failing = {}
  /\ errorListeners = {}
  /\ errors = <<>>

NextApplicator ==
  \/ \E id \in QueryIds : Select(id)
  \/ \E stream \in MutationStreams : ApplyChangesCall(stream)
  \/ pause
  \/ resume
  \/ \E p \in BagToSet(passes) : PassStat(p)

SpecApplicator == InitApplicator /\ [][NextApplicator]_vars

----------------------------------------------------------------------------
(* The snapshot store and the mutations delivered to the triggers *)

\* C5: for every tracked table T and rowid r, after any sequence of
\* mutations the snapshot entry (T, r) is the row of the last mutation for
\* (T, r) if that is a row, and is absent iff the last mutation for (T, r)
\* was a tombstone, or none was seen and r was not in the initial load.
C5_SnapshotIsLastMutation ==
  \A t \in DOMAIN tableCache : \A r \in TableRowids(t) :
    LET cache == tableCache[t]
        seen == r \in DOMAIN lastMutation[t].last
        last == lastMutation[t].last[r]
    IN /\ (seen /\ last # NULL) => (r \in DOMAIN cache /\ cache[r] = last)
       /\ (r \notin DOMAIN cache) <=>
            \/ seen /\ last = NULL
            \/ ~seen /\ r \notin DOMAIN lastMutation[t].loaded

\* a batch with two mutations of the same rowid, of a table where a loaded
\* row has been deleted by a tombstone
C5_Witness ==
  /\ lastPass.origin = "call"
  /\ lastPass.decoded = 2
  /\ \E t \in DOMAIN tableCache :
       /\ OMapHas(lastPass.changes, t)
       /\ Len(OMapGet(lastPass.changes, t)) = 1
       /\ \E r \in DOMAIN lastMutation[t].loaded :
            r \in DOMAIN lastMutation[t].last /\ lastMutation[t].last[r] = NULL
       /\ \E r \in DOMAIN tableCache[t] :
            r \in DOMAIN lastMutation[t].last /\ r \in DOMAIN lastPass.before[t]

\* the entries (table, rowId, newRow) of a changes Map, in iteration order
RECURSIVE Entries(_)
Entries(changes) ==
  IF changes = <<>> THEN <<>>
  ELSE [i \in 1..Len(Head(changes).value) |->
          [table |-> Head(changes).key, rowId |-> Head(changes).value[i].key,
           row |-> Head(changes).value[i].value]]
       \o Entries(Tail(changes))

LogFor(t, r) == {k \in 1..Len(lastPass.log) :
                   lastPass.log[k].table = t /\ lastPass.log[k].rowId = r}

\* the notification of mutation m delivered (new, old, deleted) to every
\* trigger condition it called
Delivered(m, new, old, deleted) ==
  /\ Cardinality(LogFor(m.table, m.rowId)) = 1
  /\ \A k \in LogFor(m.table, m.rowId) :
       /\ lastPass.log[k].newRow = new
       /\ lastPass.log[k].oldRow = old
       /\ lastPass.log[k].rowDeleted = deleted
       /\ \A c \in lastPass.log[k].calls : c.args = <<new, old, deleted>>

----------------------------------------------------------------------------
(* The handle with the default minInterval 0: no timer is ever set *)

\* the settings without minInterval and without an include list
InitUntimed ==
  /\ Init
  /\ settings.minInterval = 0
  /\ \A t \in DOMAIN settings.columnCache : "include" \notin DOMAIN settings.columnCache[t]

NextUntimed ==
  \/ \E id \in QueryIds : Select(id)
  \/ \E t \in Tables : \E r \in TableRowids(t), v \in TableNames(t) \cup {NoRow} :
       ExternalWrite(t, r, v)
  \/ WatcherChange
  \/ \E p \in BagToSet(passes) : PassStat(p)
  \/ \E p \in BagToSet(passes) : PassRead(p)

SpecUntimed == InitUntimed /\ [][NextUntimed]_vars

\* query q, as it was before the pass, has a trigger on the table of the
\* notification e that has no condition or whose condition holds of
\* (new row, old row, was-deleted)
Matches(q, e) ==
  \E i \in 1..Len(lastPass.queries[q].triggers) :
    LET trigger == lastPass.queries[q].triggers[i]
    IN /\ trigger.table = e.table
       /\ \/ trigger.condition = "none"
          \/ Condition(trigger.condition, e.newRow, e.oldRow, e.rowDeleted)

\* C8: a mutation on table T invalidates a registered query only if the
\* query has a trigger on T without condition or whose condition returns
\* true; a query that no mutation of the pass matches is neither queued nor
\* re-executed and keeps its last result.
C8_OnlyMatchingQueriesInvalidated ==
  lastPass.origin # "none" =>
    /\ \A k \in 1..Len(lastPass.log) : \A q \in lastPass.live :
         q \in lastPass.log[k].invalidated \cup lastPass.log[k].executed
           => Matches(q, lastPass.log[k])
    /\ \A q \in lastPass.live :
         (\A k \in 1..Len(lastPass.log) : ~Matches(q, lastPass.log[k]))
           => /\ queries[q].lastResult = lastPass.queries[q].lastResult
              /\ q \in queuedUpdates <=> q \in lastPass.queued
              /\ \A i \in 1..Len(emitted) : emitted[i].query # q

\* two queries on players, a mutation of a row that fails the filter of
\* "one": only "all" is invalidated, and the result of "one" is stale
C8_Witness ==
  /\ lastPass.origin = "wal"
  /\ lastPass.live = {"all", "one"}
  /\ \E k \in 1..Len(lastPass.log) :
       /\ lastPass.log[k].table = "players"
       /\ lastPass.log[k].invalidated = {"all"}
       /\ lastPass.log[k].calls # {}
  /\ \E i \in 1..Len(emitted) : emitted[i].query = "all"

----------------------------------------------------------------------------
(* The passes of the handle over the WAL of the external writer *)

\* C1: whenever a pass applies a mutation that matches a trigger of a
\* registered, active query, the statement of the query is re-executed in
\* that pass (every execution of a pass reads the database after all the
\* writes of its batch), also when the query was invalidated and
\* re-executed in an earlier pass.
C1_NoInvalidationLost ==
  lastPass.origin = "wal" =>
    \A k \in 1..Len(lastPass.log) : \A q \in lastPass.live :
      (lastPass.queries[q].active /\ Matches(q, lastPass.log[k]))
        => \E j \in 1..Len(lastPass.log) : q \in lastPass.log[j].executed

\* the positions, in the range of the last pass, of the leaf page images of
\* table t
ImagesOf(t) ==
  {i \in (lastPass.start + 1)..lastPass.end :
     wal[i].pageType = 13 /\ wal[i].pageNumber = RootPage[t]}

\* the rowids of the cells of the last such image
ImageRowids(t) ==
  LET last == CHOOSE i \in ImagesOf(t) : \A j \in ImagesOf(t) : j <= i
  IN {wal[last].cells[c].rowId : c \in 1..Len(wal[last].cells)}

\* C2: when the batch of a pass holds a leaf page image of a tracked table
\* and a rowid of the snapshot of the table is absent from the cells of the
\* image, the pass removes the rowid from the snapshot and evaluates the
\* triggers with (old row, null, was-deleted).
C2_DeletionDetected ==
  lastPass.origin = "wal" =>
    \A t \in DOMAIN lastPass.before :
      (t \in usedTables /\ ImagesOf(t) # {}) =>
        \A r \in DOMAIN lastPass.before[t] :
          r \notin ImageRowids(t) =>
            /\ r \notin DOMAIN tableCache[t]
            /\ \E k \in 1..Len(lastPass.log) :
                 /\ lastPass.log[k].table = t
                 /\ lastPass.log[k].rowId = r
                 /\ lastPass.log[k].oldRow = lastPass.before[t][r]
                 /\ lastPass.log[k].newRow = NULL
                 /\ lastPass.log[k].rowDeleted

\* C6: no two update events of one query, both emitted by WAL passes, are
\* less than minInterval apart.
C6_UpdatesRateLimited ==
  \A i \in 1..Len(emitted) :
    (/\ emitted[i].origin = "invalidate"
     /\ emitted[i].prevOrigin = "invalidate")
      => emitted[i].time - emitted[i].prevTime >= settings.minInterval

\* the cached columns of table t under settings.columnCache
CachedColumnsOf(t) ==
  CachedColumns(IF t \in DOMAIN settings.columnCache THEN settings.columnCache[t]
                ELSE EmptyMap,
                ColumnInfo)

\* C9: every row of the snapshot store of table T, and every row passed to
\* a trigger condition, has as keys only cached columns of T (and the rowid
\* the initial load selects with them).
C9_OnlyCachedColumnsStored ==
  /\ \A t \in DOMAIN tableCache : \A r \in DOMAIN tableCache[t] :
       DOMAIN tableCache[t][r] \subseteq CachedColumnsOf(t) \cup {"rowid"}
  /\ lastPass.origin # "none" =>
       \A k \in 1..Len(lastPass.log) : \A c \in lastPass.log[k].calls :
         \A i \in 1..2 :
           c.args[i] # NULL =>
             DOMAIN c.args[i] \subseteq CachedColumnsOf(lastPass.log[k].table) \cup {"rowid"}

----------------------------------------------------------------------------
(* pause() and resume(): a handle with one live query on players, the     *)
(* writer on one row of players, and the pauses recorded in pauseRef       *)

\* the state after new LiveSQLite(settings) and select() of "all" on the
\* empty database
InitPause ==
  /\ settings \in {DefaultSettings,
                   [DefaultSettings EXCEPT !.minInterval = 1,
                                           !.checkConditionWhenQueued = TRUE]}
  /\ db = [t \in Tables |-> [r \in TableRowids(t) |-> NoRow]]
  /\ wal = <<>>
  /\ watcherPending = FALSE
  /\ now = settings.minInterval
  /\ paused = FALSE
  /\ lastWalSize = 0
  /\ lastProcessTime = 0
  /\ updateTimeout = NoTimer
  /\ passes = EmptyBag
  /\ LET def == QueryDef("all")
         C == EnsureCached([tableInfo |-> EmptyMap, tableCache |-> EmptyMap,
                            usedTables |-> {}, thrown |-> "none"],
                           settings, db, def.triggers)
         created == [id |-> "all", keySelector |-> def.keySelector,
                     triggers |-> def.triggers, lastResult |-> NULL, active |-> TRUE,
                     seq |-> 1]
     IN /\ queries = [q \in {"all"} |-> execute(created, StmtAll("all", db)).query]
        /\ tableCache = C.tableCache
        /\ tableInfo = C.tableInfo
        /\ usedTables = C.usedTables
        /\ lastMutation = [t \in DOMAIN C.tableCache |->
                             [loaded |-> C.tableCache[t], last |-> EmptyMap]]
  /\ liveQueries = {"all"}
  /\ queuedUpdates = {}
  /\ lastPass = NoPass
  /\ emitted = <<>>
  /\ updates = [q \in QueryIds |-> NoUpdate]
  /\ probe = NoProbe
  /\ pauseRef = NoRef
  /\ timers = EmptyBag
  /\ ended = FALSE
  /\ failing = {}
  /\ errorListeners = {}
  /\ errors = <<>>

NextPause ==
  \/ \E v \in Names \cup {NoRow} : ExternalWrite("players", 1, v)
  \/ WatcherChange
  \/ TimerFire
  \/ pause
  \/ resume
  \/ Tick
  \/ \E p \in BagToSet(passes) : PassStat(p)
  \/ \E p \in BagToSet(passes) : PassRead(p)

\* PassRead is enabled iff a pass is reading
Reading == \E p \in BagToSet(passes) : p.pc = "read"

\* the timer fires when it is due, the awaits of a pass return, time passes;
\* the last conjunct is WF_vars(PassRead) with its ENABLED written as Reading
SpecPause ==
  /\ InitPause
  /\ [][NextPause]_vars
  /\ WF_vars(TimerFire)
  /\ WF_vars(Tick)
  /\ WF_vars(\E p \in BagToSet(passes) : PassStat(p))
  /\ ([]<>(~Reading) \/ []<><<\E p \in BagToSet(passes) : PassRead(p)>>_vars)

\* after a recorded pause and resume, with no write since: no pass is in
\* flight, no timer is set and no change event is pending
Settled ==
  /\ pauseRef.phase = "resumed"
  /\ passes = EmptyBag
  /\ updateTimeout = NoTimer
  /\ ~watcherPending
  /\ lastWalSize >= pauseRef.size

\* the updates of the handle that was not paused when it reads the growth
\* of the pause in one pass
InOnePass ==
  Diffs(applyChanges(PassState(pauseRef.state.tableCache, pauseRef.state.queries,
                               pauseRef.state.queuedUpdates),
                     liveQueries, settings, db, now,
                     ParseFrames(tableInfo, usedTables,
                                 SubSeq(wal, pauseRef.offset + 1, pauseRef.size),
                                 <<>>)).emitted)

----------------------------------------------------------------------------
(* select() with triggers on tables that cannot be cached, on a handle     *)
(* that is processing the WAL                                              *)

NextSelect ==
  \/ \E id \in {"all"} \cup BadQueryIds : Select(id)
  \/ \E t \in Tables, v \in {"Alice", NoRow} : ExternalWrite(t, 1, v)
  \/ WatcherChange
  \/ \E p \in BagToSet(passes) : PassStat(p)
  \/ \E p \in BagToSet(passes) : PassRead(p)

SpecSelect == InitUntimed /\ [][NextSelect]_vars

\* the step is a select() that an error of cacheTableInfo or cacheTable left
CacheErrorThrown ==
  \E i \in 1..Len(errors') : errors'[i].target = "caller"

\* C11: when caching a trigger table fails during select(), the error
\* (CACHE_TABLE_INFO_ERROR or CACHE_TABLE_ERROR) is thrown to the caller, no
\* query is added to the registry, no statement is executed, no update is
\* emitted, and the registry is the one before the call.
C11_FailedSelectRegistersNothing ==
  [][CacheErrorThrown =>
       /\ \A i \in 1..Len(errors') :
            /\ errors'[i].thrown
            /\ errors'[i].code \in {"CACHE_TABLE_INFO_ERROR", "CACHE_TABLE_ERROR"}
       /\ liveQueries' = liveQueries
       /\ queries' = queries
       /\ emitted' = <<>>
       /\ updates' = updates]_vars

\* a select() has failed on a handle that holds a live query, after a
\* table of an earlier trigger was cached
C11_Witness ==
  /\ \E i \in 1..Len(errors) : errors[i].target = "caller"
  /\ liveQueries # {}
  /\ "ghost" \in DOMAIN tableInfo
  /\ "teams" \in DOMAIN tableCache

----------------------------------------------------------------------------
(* Statements that throw when they are run, and listeners of 'error'       *)

\* from now on this.stmt.all(this.values) of query q throws
BreakStatement(q) ==
  /\ q \notin failing
  /\ failing' = failing \cup {q}
  /\ lastPass' = NoPass
  /\ emitted' = <<>>
  /\ errors' = <<>>
  /\ UNCHANGED <<settings, db, wal, watcherPending, now, paused, lastWalSize,
                 lastProcessTime, updateTimeout, passes, queries, liveQueries,
                 queuedUpdates, tableCache, tableInfo, usedTables, lastMutation,
                 updates, probe, pauseRef, timers, ended, errorListeners>>

\* emitter.on('error', listener), on the handle or on a query select()
\* has returned
OnError(target) ==
  /\ target \in {"handle"} \cup DOMAIN queries
  /\ target \notin errorListeners
  /\ errorListeners' = errorListeners \cup {target}
  /\ lastPass' = NoPass
  /\ emitted' = <<>>
  /\ errors' = <<>>
  /\ UNCHANGED <<settings, db, wal, watcherPending, now, paused, lastWalSize,
                 lastProcessTime, updateTimeout, passes, queries, liveQueries,
                 queuedUpdates, tableCache, tableInfo, usedTables, lastMutation,
                 updates, probe, pauseRef, timers, ended, failing>>

NextErrors ==
  \/ \E id \in QueryIds : Select(id)
  \/ \E q \in QueryIds : BreakStatement(q)
  \/ \E target \in {"handle"} \cup QueryIds : OnError(target)
  \/ \E t \in Tables, v \in {"Alice", NoRow} : ExternalWrite(t, 1, v)
  \/ WatcherChange
  \/ \E p \in BagToSet(passes) : PassStat(p)
  \/ \E p \in BagToSet(passes) : PassRead(p)

SpecErrors == InitUntimed /\ [][NextErrors]_vars

\* the queries whose re-execution failed in the pass just made
FailedInPass == UNION {lastPass.log[k].failed : k \in 1..Len(lastPass.log)}

\* the snapshot holds every mutation of the batch: the row of the batch for
\* a row written, no row for a row deleted
BatchApplied ==
  \A i \in 1..Len(lastPass.changes) :
    LET t == lastPass.changes[i].key
        rows == lastPass.changes[i].value
    IN t \in DOMAIN lastPass.before =>
         \A j \in 1..Len(rows) :
           IF rows[j].value = NULL
             THEN rows[j].key \notin DOMAIN tableCache[t]
             ELSE /\ rows[j].key \in DOMAIN tableCache[t]
                  /\ tableCache[t][rows[j].key] = rows[j].value

\* every active query a notification of the pass invalidates is executed
SiblingsExecuted ==
  \A k \in 1..Len(lastPass.log) :
    LET E == lastPass.log[k]
    IN \A q \in lastPass.live :
         (/\ lastPass.queries[q].active
          /\ SomeTrigger(lastPass.queries[q].triggers, 1, E.table, E.oldRow, E.newRow,
                         E.rowDeleted) # 0
          /\ settings.checkConditionWhenQueued \/ q \notin E.queued)
         => q \in E.executed

\* C12: when the re-execution of a live query Q fails in a pass, the error
\* is emitted on Q, the last result of Q is unchanged, every other query
\* the batch invalidates is re-executed, every mutation of the batch is in
\* the snapshot and the offset is past the batch, with or without a
\* listener of 'error' on Q.
C12_QueryErrorIsolated ==
  (lastPass.origin = "wal" /\ FailedInPass # {}) =>
     /\ \A q \in FailedInPass :
          /\ \E i \in 1..Len(errors) : errors[i].target = q
          /\ queries[q].lastResult = lastPass.queries[q].lastResult
     /\ SiblingsExecuted
     /\ BatchApplied
     /\ lastWalSize = lastPass.end

\* the same, for the passes in which every failing query has a listener
ErrorIsolatedWithListener ==
  (/\ lastPass.origin = "wal"
   /\ FailedInPass # {}
   /\ FailedInPass \subseteq errorListeners) =>
     /\ \A q \in FailedInPass :
          /\ \E i \in 1..Len(errors) : errors[i].target = q /\ ~errors[i].thrown
          /\ queries[q].lastResult = lastPass.queries[q].lastResult
     /\ SiblingsExecuted
     /\ BatchApplied
     /\ lastWalSize = lastPass.end

----------------------------------------------------------------------------
(* LiveSQLiteSelect.stop *)

\* stop() that leaves the query in the registry
stop_KeepsRegistered(q) ==
  /\ q \in DOMAIN queries
  /\ queries[q].active
  /\ queries' = [queries EXCEPT ![q].active = FALSE]
  /\ lastPass' = NoPass
  /\ emitted' = <<>>
  /\ errors' = <<>>
  /\ pauseRef' = Track(NoRef)
  /\ UNCHANGED <<settings, db, wal, watcherPending, now, paused, lastWalSize,
                 lastProcessTime, updateTimeout, passes, liveQueries, queuedUpdates,
                 tableCache, tableInfo, usedTables, lastMutation, updates, probe,
                 timers, ended, failing, errorListeners>>

\* stop(), on a query select() has returned and that was not stopped
stop(q) ==
  /\ q \in DOMAIN queries
  /\ queries[q].active
  /\ queries' = [queries EXCEPT ![q].active = FALSE]
  /\ liveQueries' = liveQueries \ {q}
  /\ lastPass' = NoPass
  /\ emitted' = <<>>
  /\ errors' = <<>>
  /\ pauseRef' = Track(NoRef)
  /\ UNCHANGED <<settings, db, wal, watcherPending, now, paused, lastWalSize,
                 lastProcessTime, updateTimeout, passes, queuedUpdates, tableCache,
                 tableInfo, usedTables, lastMutation, updates, probe, timers, ended,
                 failing, errorListeners>>

NextStop ==
  \/ \E id \in QueryIds : Select(id)
  \/ \E q \in QueryIds : stop(q)
  \/ \E v \in {"Alice", NoRow} : ExternalWrite("players", 1, v)
  \/ WatcherChange
  \/ pause
  \/ resume
  \/ \E p \in BagToSet(passes) : PassStat(p)
  \/ \E p \in BagToSet(passes) : PassRead(p)

InitStop == Init /\ settings = DefaultSettings

SpecStop == InitStop /\ [][NextStop]_vars

\* the queries stop() has been called on
Stopped == {q \in DOMAIN queries : ~queries[q].active}

\* the queries the pass just made has executed, and those it has emitted
\* an update of
ExecutedInPass == UNION {lastPass.log[k].executed : k \in 1..Len(lastPass.log)}
EmittedInStep == {emitted[i].query : i \in 1..Len(emitted)}

\* a stopped query is not registered, no pass executes it and no step
\* emits an update of it
StoppedInert ==
  /\ Stopped \cap liveQueries = {}
  /\ lastPass.origin = "wal" => Stopped \cap ExecutedInPass = {}
  /\ Stopped \cap EmittedInStep = {}

\* a step that stops q removes q from the registry and leaves the other
\* queries as they are
StopLeavesOthers ==
  \A q \in DOMAIN queries :
    (queries[q].active /\ ~queries'[q].active) =>
       /\ liveQueries' = liveQueries \ {q}
       /\ \A o \in DOMAIN queries \ {q} : queries'[o] = queries[o]

\* C13: after stop() a query is not in the registry and, whatever passes,
\* pauses, resumes and writes to its trigger tables follow, it is not
\* re-executed and emits no update; stopping a query leaves every other
\* registered query registered and active.
C13_StoppedQueriesAreInert == [](StoppedInert) /\ [][StopLeavesOthers]_vars

\* a pass has notified a mutation of a trigger table of a stopped query,
\* and has executed another query, which is still registered
C13_Witness ==
  /\ lastPass.origin = "wal"
  /\ "all" \in Stopped
  /\ "one" \in liveQueries
  /\ \E k \in 1..Len(lastPass.log) :
       /\ lastPass.log[k].table = "players"
       /\ "one" \in lastPass.log[k].executed

----------------------------------------------------------------------------
(* LiveSQLite.end *)

\* end(): the watcher and the connections are closed, the registry and the
\* caches are cleared.  The timer of processWALChanges is not cleared and
\* the passes suspended on an await are not told.
end ==
  /\ ~ended
  /\ ended' = TRUE
  /\ watcherPending' = FALSE
  /\ liveQueries' = {}
  /\ tableCache' = EmptyMap
  /\ tableInfo' = EmptyMap
  /\ usedTables' = {}
  /\ lastMutation' = EmptyMap
  /\ lastPass' = NoPass
  /\ emitted' = <<>>
  /\ errors' = <<>>
  /\ pauseRef' = Track(NoRef)
  /\ UNCHANGED <<settings, db, wal, now, paused, lastWalSize, lastProcessTime,
                 updateTimeout, passes, queries, queuedUpdates, updates, probe,
                 timers, failing, errorListeners>>

NextEnd ==
  \/ \E id \in QueryIds : Select(id)
  \/ \E v \in {"Alice", NoRow} : ExternalWrite("players", 1, v)
  \/ WatcherChange
  \/ TimerFire
  \/ Tick
  \/ pause
  \/ resume
  \/ end
  \/ \E p \in BagToSet(passes) : PassStat(p)
  \/ \E p \in BagToSet(passes) : PassRead(p)

SpecEnd == Init /\ [][NextEnd]_vars

\* C14: end() clears the registry and the snapshots, and after it no pass
\* starts or continues, from a pending timer or from an await, no closed
\* connection is used and no update or error is emitted.
C14_ShutdownIsFinal ==
  /\ [](ended => liveQueries = {} /\ tableCache = EmptyMap)
  /\ [][ended => passes' = passes /\ errors' = <<>> /\ emitted' = <<>>]_vars

----------------------------------------------------------------------------
(* The order of a pass: applying and notifying *)

\* C15: in a pass no trigger predicate is evaluated and no query is
\* invalidated or executed before every mutation of the byte range is in
\* the snapshot: each notification of the pass sees the snapshot the pass
\* ends with.
C15_BatchAppliedBeforeNotify ==
  lastPass.origin = "wal" =>
    \A k \in 1..Len(lastPass.log) : lastPass.log[k].cache = tableCache

\* the mutations the pass just made has applied and handed to
\* notifyQueries, in order
DeliveredInPass ==
  [k \in 1..Len(lastPass.log) |->
     [table |-> lastPass.log[k].table, rowId |-> lastPass.log[k].rowId,
      row |-> lastPass.log[k].newRow]]

\* C16: the mutations decoded from the byte range of a pass are applied to
\* the snapshot and handed to the trigger predicates in frame order and, in
\* a frame, in cell order, also when the frames of several tables
\* alternate and when a rowid is in more than one frame.
C16_AppliedInFrameOrder ==
  lastPass.origin = "wal" =>
    DeliveredInPass = MutationStream(tableInfo, usedTables,
                               SubSeq(wal, lastPass.start + 1, lastPass.end))

----------------------------------------------------------------------------
(* The queue of notifyQueries *)

\* the calls of a trigger predicate of query q in the notification E
CallsOf(E, q) == {c \in E.calls : c.query = q}

\* the triggers of query q whose predicate some() reaches first for a
\* mutation of table t
FirstConditional(q, t) ==
  {n \in 1..Len(lastPass.queries[q].triggers) :
     /\ lastPass.queries[q].triggers[n].table = t
     /\ lastPass.queries[q].triggers[n].condition # "none"
     /\ \A m \in 1..(n - 1) : lastPass.queries[q].triggers[m].table # t}

\* C17: with checkConditionWhenQueued unset, a mutation on a trigger table
\* of a query that is in the queue evaluates no trigger predicate of the
\* query and does not execute it; with checkConditionWhenQueued set the
\* predicates are evaluated for every mutation; a query is in the queue at
\* most once (queuedUpdates is a set).
C17_CoalescingPolicy ==
  lastPass.origin = "wal" =>
    \A k \in 1..Len(lastPass.log) : \A q \in lastPass.live :
      LET E == lastPass.log[k]
      IN /\ (~settings.checkConditionWhenQueued /\ q \in E.queued) =>
              /\ CallsOf(E, q) = {}
              /\ q \notin E.executed
         /\ settings.checkConditionWhenQueued =>
              \A n \in FirstConditional(q, E.table) :
                \E c \in CallsOf(E, q) : c.trigger = n

\* the same, without the clause on the predicates of a queued query: a
\* queued query is not executed when checkConditionWhenQueued is unset,
\* and its predicates are evaluated when it is set
QueuedNotExecuted ==
  lastPass.origin = "wal" =>
    \A k \in 1..Len(lastPass.log) : \A q \in lastPass.live :
      LET E == lastPass.log[k]
      IN /\ (~settings.checkConditionWhenQueued /\ q \in E.queued) => q \notin E.executed
         /\ settings.checkConditionWhenQueued =>
              \A n \in FirstConditional(q, E.table) :
                \E c \in CallsOf(E, q) : c.trigger = n

----------------------------------------------------------------------------
(* The debounce of processWALChanges *)

\* this.updateTimeout holds a handle exactly while a timer is pending, and
\* at most one timer is pending
OneTimer ==
  /\ BagCardinality(timers) <= 1
  /\ updateTimeout # NoTimer <=> timers # EmptyBag

\* the step starts a pass
PassStarts == BagCardinality(passes') > BagCardinality(passes)

\* a pass starts on a handle that is not paused, minInterval or more after
\* the start of the pass before it; a step on a paused handle starts no
\* pass and sets no timer; a timer that goes leaves a pass started, unless
\* the handle is paused
DebounceStep ==
  /\ PassStarts => /\ ~paused'
                   /\ lastProcessTime' = now
                   /\ lastProcessTime' - lastProcessTime >= settings.minInterval
  /\ paused' => /\ ~PassStarts
                /\ BagCardinality(timers') <= BagCardinality(timers)
  /\ (timers # EmptyBag /\ timers' = EmptyBag) => paused \/ PassStarts

\* C18: at most one timer is pending; a change event or resume() less than
\* minInterval after the start of the last pass starts no pass and sets a
\* timer only if none is pending, and on a paused handle starts no pass
\* and sets no timer; the starts of two passes are minInterval or more
\* apart; once a timer is pending (due within the time of the model) a
\* pass starts, at the time the timer is due or later, unless the handle is
\* paused when the timer fires.
C18_Debounce ==
  /\ []OneTimer
  /\ [][DebounceStep]_vars
  /\ (timers # EmptyBag /\ updateTimeout <= settings.minInterval * MaxTime)
       ~> (timers = EmptyBag \/ lastProcessTime >= updateTimeout)

\* a pass has started and a change event less than minInterval after it
\* has set the timer, which is not due yet
C18_Witness ==
  /\ BagCardinality(timers) = 1
  /\ updateTimeout > now
  /\ lastProcessTime = now
  /\ passes # EmptyBag
  /\ ~watcherPending

----------------------------------------------------------------------------
(* A WAL that shrinks *)

\* a checkpoint of another process truncates the WAL to no frame, between
\* two passes of the handle; the watcher sees the file change
Checkpoint ==
  /\ wal # <<>>
  /\ passes = EmptyBag
  /\ wal' = <<>>
  /\ watcherPending' = ~ended
  /\ lastPass' = NoPass
  /\ emitted' = <<>>
  /\ errors' = <<>>
  /\ pauseRef' = Track(NoRef)
  /\ UNCHANGED <<settings, db, now, paused, lastWalSize, lastProcessTime,
                 updateTimeout, passes, queries, liveQueries, queuedUpdates,
                 tableCache, tableInfo, usedTables, lastMutation, updates, probe,
                 timers, ended, failing, errorListeners>>

NextCheckpoint ==
  \/ \E id \in QueryIds : Select(id)
  \/ \E v \in {"Alice", NoRow} : ExternalWrite("players", 1, v)
  \/ Checkpoint
  \/ WatcherChange
  \/ \E p \in BagToSet(passes) : PassStat(p)
  \/ \E p \in BagToSet(passes) : PassRead(p)

SpecCheckpoint == InitStop /\ [][NextCheckpoint]_vars

\* the step is the stat of a pass that finds the WAL no larger than the
\* offset
StatWithoutGrowth ==
  /\ Len(wal) <= lastWalSize
  /\ \E p \in BagToSet(passes) : p.pc = "stat" /\ passes' = passes (-) SetToBag({p})

\* C19: a pass whose stat finds the size of the WAL less than or equal to
\* the offset reads and decodes nothing, leaves the snapshot, invalidates
\* no query and leaves the offset; hence the offset never decreases.
C19_OffsetKeptOnNonGrowth ==
  /\ [][StatWithoutGrowth =>
          /\ lastWalSize' = lastWalSize
          /\ tableCache' = tableCache
          /\ queries' = queries
          /\ queuedUpdates' = queuedUpdates
          /\ emitted' = <<>>]_vars
  /\ [][lastWalSize' >= lastWalSize]_vars

\* the same, without the offset: such a pass reads nothing and leaves the
\* snapshot and the queries
NothingReadOnNonGrowth ==
  [][StatWithoutGrowth =>
       /\ tableCache' = tableCache
       /\ queries' = queries
       /\ queuedUpdates' = queuedUpdates
       /\ emitted' = <<>>
       /\ lastWalSize' = Len(wal)]_vars

----------------------------------------------------------------------------
(* Passes in flight *)

\* C20: whatever the order of watcher events, timer firings and resume(),
\* at most one pass is in flight; a pass reads the range from the offset
\* to the size and then sets the offset to the size, so that every frame is
\* decoded once, in increasing order, and the offset is never set back.
C20_SerialPasses ==
  /\ [](BagCardinality(passes) <= 1)
  /\ [](lastPass.origin = "wal" => lastPass.start = lastPass.offset)
  /\ [][lastWalSize' >= lastWalSize]_vars

====
